---- MODULE Spec2Model ----
(***************************************************************************)
(* deadline_control: Slave / Pool / Group entities over the Deadline REST  *)
(* client, their caches, and the DeadlineList proxies that turn list       *)
(* mutations into remote calls.                                            *)
(*                                                                         *)
(* Representation choices                                                  *)
(*  - a name is a string; "G1", "P1", "S1" are the upper-case spellings of *)
(*    "g1", "p1", "s1" (lower gives the lower-case spelling);              *)
(*  - a comma-joined string is represented by the token sequence that      *)
(*    str.split(',') yields for it, so the empty string is <<"">>;         *)
(*  - a cache cell is NOT_SET or Fetched(v);                               *)
(*  - the remote service keeps memberships as sets of lower-case names and *)
(*    answers every mutating call with a status; a call that does not      *)
(*    answer "Success" leaves the remote state as it was.                  *)
(***************************************************************************)
EXTENDS Integers, Sequences, FiniteSets, TLC

\* Longest list a proxy, a cached name list or a bulk argument may reach.
MaxLen == 2

SlaveNames == {"s1", "s2"}
GroupNames == {"g1", "g2"}
PoolNames == {"p1", "p2"}

\* What a caller may pass where a name is expected.
SlaveInputs == {"s1", "s2"}
GroupInputs == {"g1", "g2", "G1"}
PoolInputs == {"p1", "P1"}

\* The order in which the remote service lists names.
NameOrder == <<"g1", "g2", "p1", "p2", "s1", "s2">>

\* Status strings a mutating remote call may answer.
RemoteStatuses == {"Success", "Error"}

VARIABLES
  remote,          \* the render-farm manager behind utils.api
  POOLS_CACHE,     \* Pool._POOLS_CACHE
  GROUPS_CACHE,    \* Group._GROUPS_CACHE
  SLAVES_CACHE,    \* Slave._SLAVES_CACHE
  INFO_CACHE,      \* Slave._INFO_CACHE
  SETTINGS_CACHE,  \* Slave._SETTINGS_CACHE
  slave,           \* the Slave object the caller holds
  group,           \* the Group object the caller holds
  proxy,           \* the DeadlineList the caller holds
  reads,           \* the names whose info / settings the caller has read directly
  last             \* what the last operation did: calls, hooks, result

\* The class-level cache cells.
caches == <<POOLS_CACHE, GROUPS_CACHE, SLAVES_CACHE, INFO_CACHE, SETTINGS_CACHE>>

vars == <<remote, caches, slave, group, proxy, reads, last>>

-----------------------------------------------------------------------------
(* Values *)

NOT_SET == [set |-> FALSE]
Fetched(v) == [set |-> TRUE, val |-> v]

NoObject == [cls |-> "none"]
NoProxy == [kind |-> "none"]

\* str.lower on the names of the model.
lower(n) ==
  CASE n = "G1" -> "g1"
    [] n = "P1" -> "p1"
    [] n = "S1" -> "s1"
    [] OTHER -> n

\* DeadlineItem.__eq__: names compare ignoring case.
ItemEq(a, b) == lower(a) = lower(b)

\* A caller's argument: a raw string or an existing DeadlineItem.
Arg(type, name) == [type |-> type, name |-> name]

\* DeadlineItem.__init__ through a subclass: the name is copied unchanged.
Item(cls, x) == [type |-> cls, name |-> x.name]

\* The spellings and classes the model knows, in a fixed order.
Spellings == <<"g1", "G1", "g2", "p1", "P1", "p2", "s1", "S1", "s2">>

Classes == <<"Slave", "Pool", "Group", "str">>

PositionIn(seq, v) == CHOOSE i \in 1..Len(seq) : seq[i] = v

\* hash() of the text of a repr: a function of the text, with collisions.
PyHash(text) == (7 * PositionIn(Classes, text[1]) + PositionIn(Spellings, text[2])) % 5

\* A repr that keeps the spelling of the name.
DeadlineItem_repr_cased(item) == <<item.type, item.name>>

\* DeadlineItem.__repr__: the class name and the lower-case name.
DeadlineItem_repr(item) == <<item.type, lower(item.name)>>

\* DeadlineItem.__hash__
DeadlineItem_hash(item) == PyHash(DeadlineItem_repr(item))

\* DeadlineItem.__eq__: value is another item or a string.
DeadlineItem_eq(item, value) ==
  IF value.type = item.type
  THEN lower(item.name) = lower(value.name)
  ELSE lower(item.name) = lower(value.name)

\* DeadlineItem.__ne__
DeadlineItem_ne(item, value) == ~DeadlineItem_eq(item, value)

\* ','.join(map(str, items)), as the tokens split(',') gives back.
JoinComma(names) == IF names = <<>> THEN <<"">> ELSE names

\* text.split(',').
SplitComma(text) == text

SeqOfSet(S) == SelectSeq(NameOrder, LAMBDA n : n \in S)

Range(s) == {s[i] : i \in 1..Len(s)}

SeqsUpTo(S, n) == UNION {[1..k -> S] : k \in 0..n}

-----------------------------------------------------------------------------
(* The remote service, one operator per call of utils.api the code makes *)

GetSlaveInfo(r, name) ==
  [Pools |-> JoinComma(SeqOfSet(r.pools[lower(name)])),
   Grps |-> JoinComma(SeqOfSet(r.grps[lower(name)]))]

GetSlaveSettings(r, name) == <<r.settings[lower(name)]>>

GetSlaveNamesInGroup(r, name) ==
  SeqOfSet({s \in SlaveNames : lower(name) \in r.grps[s]})

GetPoolNames(r) == SeqOfSet(r.poolNames)

GetGroupNames(r) == SeqOfSet(r.groupNames)

GetSlaveNames(r) == SeqOfSet(r.slaveNames)

GetSlaveNamesInPool(r, name) ==
  SeqOfSet({s \in SlaveNames : lower(name) \in r.pools[s]})

AddPoolToSlave(r, s, p, status) ==
  IF status = "Success"
  THEN [r EXCEPT !.pools[lower(s)] = @ \cup ({lower(p)} \cap PoolNames)]
  ELSE r

RemovePoolFromSlave(r, s, p, status) ==
  IF status = "Success"
  THEN [r EXCEPT !.pools[lower(s)] = @ \ {lower(p)}]
  ELSE r

SetPoolsForSlave(r, s, ps, status) ==
  IF status = "Success"
  THEN [r EXCEPT !.pools[lower(s)] = {lower(p) : p \in Range(ps)} \cap PoolNames]
  ELSE r

AddGroupToSlave(r, s, g, status) ==
  IF status = "Success"
  THEN [r EXCEPT !.grps[lower(s)] = @ \cup ({lower(g)} \cap GroupNames)]
  ELSE r

RemoveGroupFromSlave(r, s, g, status) ==
  IF status = "Success"
  THEN [r EXCEPT !.grps[lower(s)] = @ \ {lower(g)}]
  ELSE r

SetGroupsForSlave(r, s, gs, status) ==
  IF status = "Success"
  THEN [r EXCEPT !.grps[lower(s)] = {lower(g) : g \in Range(gs)} \cap GroupNames]
  ELSE r

\* SetGroupsForSlave(slave=[...], group=g): the bulk form, a list of slaves.
SetGroupForSlaves(r, ss, g, status) ==
  IF status = "Success"
  THEN [r EXCEPT !.grps = [s \in SlaveNames |->
          IF s \in {lower(x) : x \in ss} THEN {lower(g)} \cap GroupNames ELSE @[s]]]
  ELSE r

SaveSlaveSettings(r, s, blob, status) ==
  IF status = "Success" THEN [r EXCEPT !.settings[lower(s)] = blob] ELSE r

AddPool(r, p, status) ==
  IF status = "Success" THEN [r EXCEPT !.poolNames = @ \cup ({lower(p)} \cap PoolNames)] ELSE r

DeletePool(r, p, status) ==
  IF status = "Success" THEN [r EXCEPT !.poolNames = @ \ {lower(p)}] ELSE r

DeleteGroup(r, g, status) ==
  IF status = "Success" THEN [r EXCEPT !.groupNames = @ \ {lower(g)}] ELSE r

\* One entry of the log of remote calls an operation made.
Call(api, args, status) == [api |-> api, args |-> args, status |-> status]

-----------------------------------------------------------------------------
(* Python list primitives (0-based indices, negative ones count from the end) *)

NormIndex(i, n) == IF i < 0 THEN i + n ELSE i

ValidIndex(i, n) == 0 <= NormIndex(i, n) /\ NormIndex(i, n) < n

\* list.insert clamps its index into 0..len.
ClampIndex(i, n) ==
  LET j == NormIndex(i, n) IN IF j < 0 THEN 0 ELSE IF j > n THEN n ELSE j

RemoveAt(s, k) == [j \in 1..(Len(s) - 1) |-> IF j < k THEN s[j] ELSE s[j + 1]]

InsertAt(s, k, x) == SubSeq(s, 1, k - 1) \o <<x>> \o SubSeq(s, k, Len(s))

\* A search that stops at the last element equal to the value.
LastIndex(s, n) ==
  IF \E i \in 1..Len(s) : ItemEq(s[i], n)
  THEN CHOOSE i \in 1..Len(s) : ItemEq(s[i], n) /\ \A j \in (i + 1)..Len(s) : ~ItemEq(s[j], n)
  ELSE 0

\* list.index / list.remove look for the first element equal to the value;
\* 0 when there is none.
FirstIndex(s, n) ==
  IF \E i \in 1..Len(s) : ItemEq(s[i], n)
  THEN CHOOSE i \in 1..Len(s) : ItemEq(s[i], n) /\ \A j \in 1..(i - 1) : ~ItemEq(s[j], n)
  ELSE 0

-----------------------------------------------------------------------------
(* DeadlineList: the local half of each operation.  The result says what   *)
(* the list holds afterwards, which hook the operation goes on to call and *)
(* with which argument, what it returns and what it raises.                *)

Local(items, hook, arg, ret, retInt, exc) ==
  [items |-> items, hook |-> hook, arg |-> arg, ret |-> ret, retInt |-> retInt, exc |-> exc]

\* An append that hands the caller's value to the hook as it came.
DeadlineList_append_raw(cls, items, x) ==
  Local(Append(items, Item(cls, x).name), "trigger_add", x, "None", 0, "none")

DeadlineList_append(cls, items, x) ==
  Local(Append(items, Item(cls, x).name), "trigger_add", Item(cls, x), "None", 0, "none")

DeadlineList_remove(cls, items, x) ==
  LET k == FirstIndex(items, Item(cls, x).name) IN
  IF k = 0
  THEN Local(items, "none", x, "None", 0, "ValueError")
  ELSE Local(RemoveAt(items, k), "trigger_remove", x, "None", 0, "none")

\* A slice assignment that hands the new contents to the hook.
DeadlineList_setslice_new(cls, items, xs) ==
  Local([i \in 1..Len(xs) |-> Item(cls, xs[i]).name], "trigger_set",
        [i \in 1..Len(xs) |-> Item(cls, xs[i]).name], "None", 0, "none")

\* __setitem__ with the slice [:].
DeadlineList_setslice(cls, items, xs) ==
  Local([i \in 1..Len(xs) |-> Item(cls, xs[i]).name], "trigger_set", items, "None", 0, "none")

\* __setitem__ with an integer index.
DeadlineList_setitem(cls, items, i, x) ==
  IF ValidIndex(i, Len(items))
  THEN Local([items EXCEPT ![NormIndex(i, Len(items)) + 1] = Item(cls, x).name],
             "trigger_set", items, "None", 0, "none")
  ELSE Local(items, "none", x, "None", 0, "IndexError")

DeadlineList_delitem(cls, items, i) ==
  IF ValidIndex(i, Len(items))
  THEN Local(RemoveAt(items, NormIndex(i, Len(items)) + 1), "trigger_set", items, "None", 0, "none")
  ELSE Local(items, "none", items, "None", 0, "IndexError")

DeadlineList_insert(cls, items, i, x) ==
  Local(InsertAt(items, ClampIndex(i, Len(items)) + 1, Item(cls, x).name),
        "trigger_set", items, "None", 0, "none")

\* A pop that takes its snapshot after the element is gone.
DeadlineList_pop_late(cls, items, i) ==
  IF ValidIndex(i, Len(items))
  THEN Local(RemoveAt(items, NormIndex(i, Len(items)) + 1), "trigger_set",
             RemoveAt(items, NormIndex(i, Len(items)) + 1),
             items[NormIndex(i, Len(items)) + 1], 0, "none")
  ELSE Local(items, "none", items, "None", 0, "IndexError")

DeadlineList_pop(cls, items, i) ==
  IF ValidIndex(i, Len(items))
  THEN Local(RemoveAt(items, NormIndex(i, Len(items)) + 1), "trigger_set", items,
             items[NormIndex(i, Len(items)) + 1], 0, "none")
  ELSE Local(items, "none", items, "None", 0, "IndexError")

DeadlineList_index(cls, items, x) ==
  LET k == FirstIndex(items, Item(cls, x).name) IN
  IF k = 0
  THEN Local(items, "none", x, "None", 0, "ValueError")
  ELSE Local(items, "none", x, "None", k - 1, "none")

DeadlineList_getitem(cls, items, i) ==
  IF ValidIndex(i, Len(items))
  THEN Local(items, "none", items, items[NormIndex(i, Len(items)) + 1], 0, "none")
  ELSE Local(items, "none", items, "None", 0, "IndexError")

DeadlineList_len(cls, items) == Local(items, "none", items, "None", Len(items), "none")

-----------------------------------------------------------------------------
(* Entities *)

\* Slave.__init__: the object's cells are copies of the class-level cells.
Slave_init(name) ==
  [cls |-> "Slave", name |-> name, info |-> INFO_CACHE[name], settings |-> SETTINGS_CACHE[name]]

\* Group.__init__; Group._SLAVES_CACHE is a defaultdict nothing writes to.
Group_init(name) == [cls |-> "Group", name |-> name, slaves_cache |-> NOT_SET]

\* What a step of an operation leaves behind.
Effect(r, owner, calls, hooks, exc) ==
  [remote |-> r, owner |-> owner, calls |-> calls, hooks |-> hooks, exc |-> exc]

Hook(hook, kind, arg, depth) == [hook |-> hook, kind |-> kind, arg |-> arg, depth |-> depth]

\* One effect after another.
Then(one, rest) ==
  Effect(rest.remote, rest.owner, one.calls \o rest.calls, one.hooks \o rest.hooks, rest.exc)

\* Slave.info: fetched when the object's own cell is NOT_SET.
Slave_info(r, obj) ==
  IF obj.info.set
  THEN Effect(r, obj, <<>>, <<>>, "none")
  ELSE Effect(r, [obj EXCEPT !.info = Fetched(GetSlaveInfo(r, obj.name))],
              <<Call("GetSlaveInfo", <<obj.name>>, "data")>>, <<>>, "none")

\* Slave.settings: fetched when the object's own cell is NOT_SET.
Slave_settings(r, obj) ==
  IF obj.settings.set
  THEN Effect(r, obj, <<>>, <<>>, "none")
  ELSE Effect(r, [obj EXCEPT !.settings = Fetched(GetSlaveSettings(r, obj.name))],
              <<Call("GetSlaveSettings", <<obj.name>>, "data")>>, <<>>, "none")

\* Group._slaves: fetched when the object's own cell is NOT_SET.
Group_slaves_cache(r, obj) ==
  IF obj.slaves_cache.set
  THEN Effect(r, obj, <<>>, <<>>, "none")
  ELSE Effect(r, [obj EXCEPT !.slaves_cache = Fetched(GetSlaveNamesInGroup(r, obj.name))],
              <<Call("GetSlaveNamesInGroup", <<obj.name>>, "data")>>, <<>>, "none")

\* self.slave.info[field] = ','.join(map(str, items)) at the end of a hook.
PatchInfo(r, owner, field, items) ==
  [Slave_info(r, owner) EXCEPT !.owner.info.val[field] = JoinComma(items)]

-----------------------------------------------------------------------------
(* Slave settings.  A settings blob is a record; a value is its JSON text.  *)
(* The keyword arguments of update_settings are a sequence of entries, in   *)
(* the order the dict walks them.                                           *)

DefaultSettings == [Enable |-> "true", ExDic |-> [k |-> ""]]

\* k=v with a plain value, and k={...} with a dict of plain values.
Leaf(key, val) == [key |-> key, dict |-> FALSE, val |-> val, sub |-> <<>>]

Nested(key, sub) == [key |-> key, dict |-> TRUE, val |-> "", sub |-> sub]

Written(settings, updated, exc) == [settings |-> settings, updated |-> updated, exc |-> exc]

\* A write that always reports a change.
Slave_write_settings_eager(kwargs, settings) == Written(settings, TRUE, "none")

\* Slave._write_settings: the settings after the writes, whether any value
\* changed, and the KeyError of a key the settings do not have.
RECURSIVE Slave_write_settings(_, _)
Slave_write_nested(key, settings, inner) ==
  Written([settings EXCEPT ![key] = inner.settings], inner.updated, inner.exc)

\* A write that passes over a key the settings do not have.
Slave_write_entry_lenient(e, settings) ==
  IF e.key \notin DOMAIN settings
  THEN Written(settings, FALSE, "none")
  ELSE IF e.dict
  THEN Slave_write_nested(e.key, settings, Slave_write_settings(e.sub, settings[e.key]))
  ELSE IF settings[e.key] # e.val
  THEN Written([settings EXCEPT ![e.key] = e.val], TRUE, "none")
  ELSE Written(settings, FALSE, "none")

Slave_write_entry(e, settings) ==
  IF e.key \notin DOMAIN settings
  THEN Written(settings, FALSE, "KeyError")
  ELSE IF e.dict
  THEN Slave_write_nested(e.key, settings, Slave_write_settings(e.sub, settings[e.key]))
  ELSE IF settings[e.key] # e.val
  THEN Written([settings EXCEPT ![e.key] = e.val], TRUE, "none")
  ELSE Written(settings, FALSE, "none")

Slave_write_merge(one, rest) == Written(rest.settings, one.updated \/ rest.updated, rest.exc)

Slave_write_rest(one, kwargs) ==
  IF one.exc # "none"
  THEN one
  ELSE Slave_write_merge(one, Slave_write_settings(Tail(kwargs), one.settings))

Slave_write_settings(kwargs, settings) ==
  IF kwargs = <<>>
  THEN Written(settings, FALSE, "none")
  ELSE Slave_write_rest(Slave_write_entry(Head(kwargs), settings), kwargs)

\* What update_settings leaves behind: the settings it found, the effect and
\* the value returned.
Updated(before, eff, ret) == [before |-> before, eff |-> eff, ret |-> ret]

\* An update that puts the old settings back when the save is refused.
Slave_update_save_undoing(got, w, status) ==
  IF w.exc # "none"
  THEN Updated(got.owner.settings.val[1],
               Effect(got.remote, [got.owner EXCEPT !.settings.val = <<w.settings>>],
                      got.calls, <<>>, w.exc),
               "None")
  ELSE IF w.updated
  THEN Updated(got.owner.settings.val[1],
               Effect(SaveSlaveSettings(got.remote, got.owner.name, w.settings, status),
                      IF status = "Success"
                      THEN [got.owner EXCEPT !.settings.val = <<w.settings>>]
                      ELSE got.owner,
                      got.calls \o <<Call("SaveSlaveSettings", <<w.settings>>, status)>>,
                      <<>>, "none"),
               IF status = "Success" THEN "True" ELSE "False")
  ELSE Updated(got.owner.settings.val[1], got, "True")

\* The tail of update_settings, after _write_settings gave w on the object got.owner
Slave_update_save(got, w, status) ==
  IF w.exc # "none"
  THEN Updated(got.owner.settings.val[1],
               Effect(got.remote, [got.owner EXCEPT !.settings.val = <<w.settings>>],
                      got.calls, <<>>, w.exc),
               "None")
  ELSE IF w.updated
  THEN Updated(got.owner.settings.val[1],
               Effect(SaveSlaveSettings(got.remote, got.owner.name, w.settings, status),
                      [got.owner EXCEPT !.settings.val = <<w.settings>>],
                      got.calls \o <<Call("SaveSlaveSettings", <<w.settings>>, status)>>,
                      <<>>, "none"),
               IF status = "Success" THEN "True" ELSE "False")
  ELSE Updated(got.owner.settings.val[1], got, "True")

Slave_update_on(got, kwargs, status) ==
  Slave_update_save(got, Slave_write_settings(kwargs, got.owner.settings.val[1]), status)

\* Slave.update_settings(**kwargs)
Slave_update_settings(r, obj, kwargs, status) ==
  Slave_update_on(Slave_settings(r, obj), kwargs, status)

-----------------------------------------------------------------------------
(* Pools and groups: the all-names caches, create and delete *)

\* What a class-level operation leaves behind.
Life(r, cache, calls, ret, exc) ==
  [remote |-> r, cache |-> cache, calls |-> calls, ret |-> ret, exc |-> exc]

Bool(b) == IF b THEN "True" ELSE "False"

\* A lookup that takes a fetched but empty list for one not fetched yet.
Pool_all_unless_empty(r, cache) ==
  IF cache.set /\ cache.val # <<>>
  THEN Life(r, cache, <<>>, "None", "none")
  ELSE Life(r, Fetched(GetPoolNames(r)), <<Call("GetPoolNames", <<>>, "data")>>, "None", "none")

\* Pool._all / Group._all / Slave._all: fetched when the class cell is NOT_SET.
Pool_all(r, cache) ==
  IF cache.set
  THEN Life(r, cache, <<>>, "None", "none")
  ELSE Life(r, Fetched(GetPoolNames(r)), <<Call("GetPoolNames", <<>>, "data")>>, "None", "none")

Group_all(r, cache) ==
  IF cache.set
  THEN Life(r, cache, <<>>, "None", "none")
  ELSE Life(r, Fetched(GetGroupNames(r)), <<Call("GetGroupNames", <<>>, "data")>>, "None", "none")

Slave_all(r, cache) ==
  IF cache.set
  THEN Life(r, cache, <<>>, "None", "none")
  ELSE Life(r, Fetched(GetSlaveNames(r)), <<Call("GetSlaveNames", <<>>, "data")>>, "None", "none")

\* Slave.exists: the property reads self._setting, which no Slave has.
Slave_exists(r, cache, name) == Life(r, cache, <<>>, "None", "AttributeError")

\* A lookup that notes the name it was asked about in the list of names.
DeadlineItem_exists_noting(got, name) ==
  [got EXCEPT !.ret = Bool(\E i \in 1..Len(got.cache.val) : ItemEq(got.cache.val[i], name)),
              !.cache = Fetched(Append(got.cache.val, name))]

\* DeadlineItem.exists: self in self.all(), compared with __eq__.
DeadlineItem_exists(got, name) ==
  [got EXCEPT !.ret = Bool(\E i \in 1..Len(got.cache.val) : ItemEq(got.cache.val[i], name))]

\* list.remove on a list of strings: the first string equal to the name,
\* case and all; 0 when there is none.
ExactIndex(names, name) ==
  IF \E i \in 1..Len(names) : names[i] = name
  THEN CHOOSE i \in 1..Len(names) : names[i] = name /\ \A j \in 1..(i - 1) : names[j] # name
  ELSE 0

\* The "Update cache" step of create.
CacheAppend(done, name, status) ==
  IF status = "Success" /\ done.cache.set
  THEN [done EXCEPT !.cache = Fetched(Append(done.cache.val, name))]
  ELSE done

\* The "Update cache" step of delete.
CacheRemove(done, name, status) ==
  IF status = "Success" /\ done.cache.set
  THEN IF ExactIndex(done.cache.val, name) = 0
       THEN [done EXCEPT !.ret = "None", !.exc = "ValueError"]
       ELSE [done EXCEPT !.cache = Fetched(RemoveAt(done.cache.val, ExactIndex(done.cache.val, name)))]
  ELSE done

\* Pool.create
Pool_create(r, cache, name, status) ==
  CacheAppend(Life(AddPool(r, name, status), cache, <<Call("AddPool", <<name>>, status)>>,
                   Bool(status = "Success"), "none"),
              name, status)

\* Group.create: utils.api has Groups, not Group.
Group_create(r, cache, name, status) == Life(r, cache, <<>>, "None", "AttributeError")

\* Pool.slaves: the name Slave is not bound in the module.
Pool_slaves(r, name) == Life(r, NOT_SET, <<>>, "None", "NameError")

\* Pool.delete
Pool_delete(r, cache, name, force, status) ==
  IF ~force
  THEN [Pool_slaves(r, name) EXCEPT !.cache = cache]
  ELSE CacheRemove(Life(DeletePool(r, name, status), cache,
                        <<Call("DeletePool", <<name>>, status)>>,
                        Bool(status = "Success"), "none"),
                   name, status)

\* next(self.slaves) in Group.delete: a GroupSlaves is not an iterator.
Group_next_slaves(got, cache) == Life(got.remote, cache, got.calls, "None", "TypeError")

\* Group.delete
Group_delete(r, cache, name, force, status) ==
  IF ~force
  THEN Group_next_slaves(Group_slaves_cache(r, Group_init(name)), cache)
  ELSE CacheRemove(Life(DeleteGroup(r, name, status), cache,
                        <<Call("DeleteGroup", <<name>>, status)>>,
                        Bool(status = "Success"), "none"),
                   name, status)

-----------------------------------------------------------------------------
(* Hooks of the proxies on a slave: one remote call, then the patch of the   *)
(* owner's cached info.                                                     *)

SlaveHook(api, kind, hook, field, r2, owner, items, arg, args, status, depth) ==
  Then(Effect(r2, owner, <<Call(api, args, status)>>, <<Hook(hook, kind, arg, depth)>>, "none"),
       PatchInfo(r2, owner, field, items))

SlavePools_trigger_add(r, owner, items, pool, status, depth) ==
  SlaveHook("AddPoolToSlave", "SlavePools", "trigger_add", "Pools",
            AddPoolToSlave(r, owner.name, pool.name, status),
            owner, items, pool, <<owner.name, pool.name>>, status, depth)

SlavePools_trigger_remove(r, owner, items, pool, status, depth) ==
  SlaveHook("RemovePoolFromSlave", "SlavePools", "trigger_remove", "Pools",
            RemovePoolFromSlave(r, owner.name, pool.name, status),
            owner, items, pool, <<owner.name, pool.name>>, status, depth)

\* A set hook that sends the list as it was before.
SlavePools_trigger_set_previous(r, owner, items, previous, status, depth) ==
  SlaveHook("SetPoolsForSlave", "SlavePools", "trigger_set", "Pools",
            SetPoolsForSlave(r, owner.name, previous, status),
            owner, items, previous, <<owner.name, previous>>, status, depth)

SlavePools_trigger_set(r, owner, items, previous, status, depth) ==
  SlaveHook("SetPoolsForSlave", "SlavePools", "trigger_set", "Pools",
            SetPoolsForSlave(r, owner.name, items, status),
            owner, items, previous, <<owner.name, items>>, status, depth)

SlaveGroups_trigger_add(r, owner, items, item, status, depth) ==
  SlaveHook("AddGroupToSlave", "SlaveGroups", "trigger_add", "Grps",
            AddGroupToSlave(r, owner.name, item.name, status),
            owner, items, item, <<owner.name, item.name>>, status, depth)

SlaveGroups_trigger_remove(r, owner, items, item, status, depth) ==
  SlaveHook("RemoveGroupFromSlave", "SlaveGroups", "trigger_remove", "Grps",
            RemoveGroupFromSlave(r, owner.name, item.name, status),
            owner, items, item, <<owner.name, item.name>>, status, depth)

SlaveGroups_trigger_set(r, owner, items, previous, status, depth) ==
  SlaveHook("SetGroupsForSlave", "SlaveGroups", "trigger_set", "Grps",
            SetGroupsForSlave(r, owner.name, items, status),
            owner, items, previous, <<owner.name, items>>, status, depth)

\* Slave.pools / Slave.groups: a new proxy over the split of the cached field.
ProxyOver(got, field) == [eff |-> got, items |-> SplitComma(got.owner.info.val[field])]

Slave_pools(r, obj) == ProxyOver(Slave_info(r, obj), "Pools")

Slave_groups(r, obj) == ProxyOver(Slave_info(r, obj), "Grps")

-----------------------------------------------------------------------------
(* Hooks of the proxy on a group's slaves: they work through the groups     *)
(* proxy of a Slave object made on the spot.                                *)

\* What the remote calls of one operation answer: the status of its own
\* call, the status of the cascaded call per slave, and the order in which
\* a Python set of slaves is walked.
Oracles(kind) ==
  IF kind = "GroupSlaves"
  THEN [main : RemoteStatuses, nested : [SlaveNames -> RemoteStatuses],
        order : {<<"s1", "s2">>, <<"s2", "s1">>}]
  ELSE [main : IF kind = "read" THEN {"Success"} ELSE RemoteStatuses,
        nested : {[s \in SlaveNames |-> "Success"]}, order : {<<"s1", "s2">>}]

\* The element a Python set built from names keeps for a lower-case name:
\* the first one inserted.
Rep(names, l) ==
  names[CHOOSE i \in 1..Len(names) :
          lower(names[i]) = l /\ \A j \in 1..(i - 1) : lower(names[j]) # l]

LowerSet(names) == {lower(n) : n \in Range(names)}

\* A diff that takes every slave of the new list for a new one.
GroupSlaves_added_all(previous, items) == LowerSet(items)

\* new - old and old - new of trigger_set, as lower-case names.
GroupSlaves_added(previous, items) == LowerSet(items) \ LowerSet(previous)

\* A trigger_set that sees nothing to take away.
GroupSlaves_removed_none(previous, items) == {}

GroupSlaves_removed(previous, items) == LowerSet(previous) \ LowerSet(items)

\* The result of a cascaded operation, seen from the group's proxy: the
\* reads of the Slave made on the spot come before the calls of its hook.
Cascaded(grp, rd, eff) ==
  Effect(eff.remote, grp, rd.eff.calls \o eff.calls, eff.hooks, eff.exc)

\* .append(self.group) on the groups proxy rd of the Slave made on the spot
SlaveGroups_append(rd, loc, status) ==
  SlaveGroups_trigger_add(rd.eff.remote, rd.eff.owner, loc.items, loc.arg, status, 1)

\* .remove(self.group) on the groups proxy rd of the Slave made on the spot
SlaveGroups_remove(rd, loc, status) ==
  IF loc.exc # "none"
  THEN Effect(rd.eff.remote, rd.eff.owner, <<>>, <<>>, loc.exc)
  ELSE SlaveGroups_trigger_remove(rd.eff.remote, rd.eff.owner, loc.items, loc.arg, status, 1)

GroupSlaves_assign_on(grp, rd, status) ==
  Cascaded(grp, rd,
           SlaveGroups_append(rd, DeadlineList_append("Group", rd.items, Arg("Group", grp.name)),
                              status))

GroupSlaves_unassign_on(grp, rd, status) ==
  Cascaded(grp, rd,
           SlaveGroups_remove(rd, DeadlineList_remove("Group", rd.items, Arg("Group", grp.name)),
                              status))

\* Slave(slave).groups.append(self.group)
GroupSlaves_assign(r, grp, sname, status) ==
  GroupSlaves_assign_on(grp, Slave_groups(r, Slave_init(sname)), status)

\* Slave(slave).groups.remove(self.group)
GroupSlaves_unassign(r, grp, sname, status) ==
  GroupSlaves_unassign_on(grp, Slave_groups(r, Slave_init(sname)), status)

GroupSlaves_trigger_add(r, grp, items, slv, oracle) ==
  [GroupSlaves_assign(r, grp, slv.name, oracle.main)
     EXCEPT !.hooks = <<Hook("trigger_add", "GroupSlaves", slv, 0)>> \o @]

GroupSlaves_trigger_remove(r, grp, items, slv, oracle) ==
  [GroupSlaves_unassign(r, grp, slv.name, oracle.main)
     EXCEPT !.hooks = <<Hook("trigger_remove", "GroupSlaves", slv, 0)>> \o @]

\* for slave in map(Slave, old - new): slave.groups.remove(self.group)
RECURSIVE GroupSlaves_cascade(_, _, _, _)
GroupSlaves_cascade_after(one, grp, names, nested) ==
  IF one.exc # "none"
  THEN one
  ELSE Then(one, GroupSlaves_cascade(one.remote, grp, Tail(names), nested))

GroupSlaves_cascade(r, grp, names, nested) ==
  IF names = <<>>
  THEN Effect(r, grp, <<>>, <<>>, "none")
  ELSE GroupSlaves_cascade_after(
         GroupSlaves_unassign(r, grp, Head(names), nested[lower(Head(names))]),
         grp, names, nested)

\* The slaves of old - new, in the order the set is walked.
GroupSlaves_walk(previous, items, order) ==
  LET gone == SelectSeq(order, LAMBDA l : l \in GroupSlaves_removed(previous, items)) IN
  [i \in 1..Len(gone) |-> Rep(previous, gone[i])]

GroupSlaves_bulk(r, grp, added, previous, items, oracle) ==
  Then(Effect(r, grp, <<Call("SetGroupsForSlave", <<added, grp.name>>, oracle.main)>>,
              <<Hook("trigger_set", "GroupSlaves", previous, 0)>>, "none"),
       GroupSlaves_cascade(SetGroupForSlaves(r, added, grp.name, oracle.main), grp,
                           GroupSlaves_walk(previous, items, oracle.order), oracle.nested))

GroupSlaves_trigger_set(r, grp, items, previous, oracle) ==
  GroupSlaves_bulk(r, grp, {Rep(items, l) : l \in GroupSlaves_added(previous, items)},
                   previous, items, oracle)

-----------------------------------------------------------------------------
(* A whole proxy operation: the local half, then the hook of the proxy's    *)
(* class.                                                                   *)

ItemClass(kind) ==
  CASE kind = "SlavePools" -> "Pool"
    [] kind = "SlaveGroups" -> "Group"
    [] kind = "GroupSlaves" -> "Slave"

\* Subclass dispatch of trigger_add / trigger_remove / trigger_set.
Trigger(kind, loc, r, owner, oracle) ==
  CASE loc.hook = "none" -> Effect(r, owner, <<>>, <<>>, loc.exc)
    [] loc.hook = "trigger_add" /\ kind = "SlavePools" ->
         SlavePools_trigger_add(r, owner, loc.items, loc.arg, oracle.main, 0)
    [] loc.hook = "trigger_remove" /\ kind = "SlavePools" ->
         SlavePools_trigger_remove(r, owner, loc.items, loc.arg, oracle.main, 0)
    [] loc.hook = "trigger_set" /\ kind = "SlavePools" ->
         SlavePools_trigger_set(r, owner, loc.items, loc.arg, oracle.main, 0)
    [] loc.hook = "trigger_add" /\ kind = "SlaveGroups" ->
         SlaveGroups_trigger_add(r, owner, loc.items, loc.arg, oracle.main, 0)
    [] loc.hook = "trigger_remove" /\ kind = "SlaveGroups" ->
         SlaveGroups_trigger_remove(r, owner, loc.items, loc.arg, oracle.main, 0)
    [] loc.hook = "trigger_set" /\ kind = "SlaveGroups" ->
         SlaveGroups_trigger_set(r, owner, loc.items, loc.arg, oracle.main, 0)
    [] loc.hook = "trigger_add" /\ kind = "GroupSlaves" ->
         GroupSlaves_trigger_add(r, owner, loc.items, loc.arg, oracle)
    [] loc.hook = "trigger_remove" /\ kind = "GroupSlaves" ->
         GroupSlaves_trigger_remove(r, owner, loc.items, loc.arg, oracle)
    [] loc.hook = "trigger_set" /\ kind = "GroupSlaves" ->
         GroupSlaves_trigger_set(r, owner, loc.items, loc.arg, oracle)

-----------------------------------------------------------------------------
(* The record of the last operation *)

Quiet ==
  [op |-> "init", kind |-> "none", owner |-> "", x |-> Arg("str", ""), idx |-> 0,
   list |-> <<>>, before |-> <<>>, after |-> <<>>, truth |-> <<>>, hooks |-> <<>>,
   calls |-> <<>>, ret |-> "None", retInt |-> 0, exc |-> "none", force |-> FALSE,
   cacheBefore |-> NOT_SET, known |-> FALSE, kwargs |-> <<>>, settingsBefore |-> NOT_SET,
   ne |-> FALSE]

\* The names a caller may pass to a proxy of the kind, raw or wrapped.
Inputs(kind) ==
  LET names == CASE kind = "SlavePools" -> PoolInputs
                 [] kind = "SlaveGroups" -> GroupInputs
                 [] kind = "GroupSlaves" -> SlaveInputs
  IN {Arg("str", n) : n \in names} \cup {Arg(ItemClass(kind), n) : n \in names \cap {"p1", "g1", "s1"}}

\* Lists a caller may assign in bulk.
InputLists(kind) == SeqsUpTo({x \in Inputs(kind) : x.type = "str"}, MaxLen)

Indices == (0 - 1)..MaxLen

Owner == IF proxy.kind = "GroupSlaves" THEN group ELSE slave

\* The held Slave's cached field is what the remote service holds: nothing
\* was written through a proxy on that field, or all of it went through.
Clean(field) ==
  slave.info.set => slave.info.val[field] = GetSlaveInfo(remote, slave.name)[field]

\* The membership the remote service holds for the proxy's owner.
Truth(kind) ==
  IF kind = "GroupSlaves" /\ group # NoObject
  THEN GetSlaveNamesInGroup(remote, group.name)
  ELSE <<>>

\* A step of the held proxy: loc is the local half of the operation.
ProxyStep(op, loc, oracle, x, i, xs) ==
  \E eff \in {Trigger(proxy.kind, loc, remote, Owner, oracle)} :
  /\ proxy' = [proxy EXCEPT !.items = loc.items]
  /\ remote' = eff.remote
  /\ slave' = IF proxy.kind = "GroupSlaves" THEN slave ELSE eff.owner
  /\ last' = [Quiet EXCEPT !.op = op, !.kind = proxy.kind, !.owner = Owner.name,
                           !.x = x, !.idx = i, !.list = xs,
                           !.before = proxy.items, !.after = loc.items,
                           !.truth = Truth(proxy.kind),
                           !.hooks = eff.hooks, !.calls = eff.calls,
                           !.ret = loc.ret, !.retInt = loc.retInt,
                           !.exc = IF loc.exc # "none" THEN loc.exc ELSE eff.exc]
  /\ UNCHANGED <<caches, reads, group>>

\* The caller starts an operation once it has taken note of the last one.
Ready == last.op = "init"

\* The caller takes note of what the last operation did.
Observe ==
  /\ ~Ready
  /\ last' = Quiet
  /\ UNCHANGED <<remote, caches, reads, slave, group, proxy>>

-----------------------------------------------------------------------------
(* Operations: objects and property reads *)

\* Slave(name)
NewSlave ==
  /\ Ready
  /\ proxy = NoProxy
  /\ group = NoObject
  /\ \E n \in SlaveNames :
       /\ slave' = Slave_init(n)
       /\ last' = [Quiet EXCEPT !.op = "Slave", !.owner = n]
  /\ UNCHANGED <<remote, caches, reads, group, proxy>>

\* Slave(name), by a caller who keeps a Group object at hand
NewSlaveBeside ==
  /\ Ready
  /\ proxy = NoProxy
  /\ group # NoObject
  /\ \E n \in SlaveNames :
       /\ slave' = Slave_init(n)
       /\ last' = [Quiet EXCEPT !.op = "Slave", !.owner = n]
  /\ UNCHANGED <<remote, caches, reads, group, proxy>>

\* Group(name)
NewGroup ==
  /\ Ready
  /\ proxy = NoProxy
  /\ slave = NoObject
  /\ \E n \in GroupNames :
       /\ group' = Group_init(n)
       /\ last' = [Quiet EXCEPT !.op = "Group", !.owner = n]
  /\ UNCHANGED <<remote, caches, reads, slave, proxy>>

\* p = slave.pools
SlavePoolsGet ==
  /\ Ready
  /\ slave # NoObject
  /\ proxy.kind \in {"none", "SlavePools"}
  /\ Clean("Grps")
  /\ \E rd \in {Slave_pools(remote, slave)} :
     /\ slave' = rd.eff.owner
     /\ proxy' = [kind |-> "SlavePools", items |-> rd.items]
     /\ last' = [Quiet EXCEPT !.op = "pools", !.kind = "SlavePools", !.owner = slave.name,
                              !.after = rd.items, !.calls = rd.eff.calls]
  /\ UNCHANGED <<remote, caches, reads, group>>

\* p = slave.groups
SlaveGroupsGet ==
  /\ Ready
  /\ slave # NoObject
  /\ proxy.kind \in {"none", "SlaveGroups"}
  /\ Clean("Pools")
  /\ \E rd \in {Slave_groups(remote, slave)} :
     /\ slave' = rd.eff.owner
     /\ proxy' = [kind |-> "SlaveGroups", items |-> rd.items]
     /\ last' = [Quiet EXCEPT !.op = "groups", !.kind = "SlaveGroups", !.owner = slave.name,
                              !.after = rd.items, !.calls = rd.eff.calls]
  /\ UNCHANGED <<remote, caches, reads, group>>

\* p = group.slaves
GroupSlavesGet ==
  /\ Ready
  /\ group # NoObject
  /\ proxy.kind \in {"none", "GroupSlaves"}
  /\ \E rd \in {Group_slaves_cache(remote, group)} :
     /\ group' = rd.owner
     /\ proxy' = [kind |-> "GroupSlaves", items |-> rd.owner.slaves_cache.val]
     /\ last' = [Quiet EXCEPT !.op = "slaves", !.kind = "GroupSlaves", !.owner = group.name,
                              !.after = rd.owner.slaves_cache.val, !.truth = Truth("GroupSlaves"),
                              !.calls = rd.calls]
  /\ UNCHANGED <<remote, caches, reads, slave>>

\* slave.pools = xs, that is self.pools[:] = xs on a proxy made on the spot
SlavePoolsSet ==
  /\ Ready
  /\ slave # NoObject
  /\ proxy = NoProxy
  /\ Clean("Grps")
  /\ \E xs \in InputLists("SlavePools"), o \in Oracles("SlavePools") :
       \E rd \in {Slave_pools(remote, slave)} :
       \E loc \in {DeadlineList_setslice("Pool", rd.items, xs)} :
       \E eff \in {Trigger("SlavePools", loc, rd.eff.remote, rd.eff.owner, o)} :
          /\ slave' = eff.owner
          /\ remote' = eff.remote
          /\ last' = [Quiet EXCEPT !.op = "pools=", !.kind = "SlavePools", !.owner = slave.name,
                                   !.list = xs, !.before = rd.items, !.after = loc.items,
                                   !.hooks = eff.hooks, !.calls = rd.eff.calls \o eff.calls,
                                   !.exc = eff.exc]
  /\ UNCHANGED <<caches, reads, group, proxy>>

\* slave.groups = xs
SlaveGroupsSet ==
  /\ Ready
  /\ slave # NoObject
  /\ proxy = NoProxy
  /\ Clean("Pools")
  /\ \E xs \in InputLists("SlaveGroups"), o \in Oracles("SlaveGroups") :
       \E rd \in {Slave_groups(remote, slave)} :
       \E loc \in {DeadlineList_setslice("Group", rd.items, xs)} :
       \E eff \in {Trigger("SlaveGroups", loc, rd.eff.remote, rd.eff.owner, o)} :
          /\ slave' = eff.owner
          /\ remote' = eff.remote
          /\ last' = [Quiet EXCEPT !.op = "groups=", !.kind = "SlaveGroups", !.owner = slave.name,
                                   !.list = xs, !.before = rd.items, !.after = loc.items,
                                   !.hooks = eff.hooks, !.calls = rd.eff.calls \o eff.calls,
                                   !.exc = eff.exc]
  /\ UNCHANGED <<caches, reads, group, proxy>>

\* group.slaves = xs
GroupSlavesSet ==
  /\ Ready
  /\ group # NoObject
  /\ proxy.kind \in {"none", "GroupSlaves"}
  /\ \E xs \in InputLists("GroupSlaves"), o \in Oracles("GroupSlaves") :
       \E rd \in {Group_slaves_cache(remote, group)} :
       \E loc \in {DeadlineList_setslice("Slave", rd.owner.slaves_cache.val, xs)} :
       \E eff \in {Trigger("GroupSlaves", loc, rd.remote, rd.owner, o)} :
          /\ group' = eff.owner
          /\ remote' = eff.remote
          /\ last' = [Quiet EXCEPT !.op = "slaves=", !.kind = "GroupSlaves", !.owner = group.name,
                                   !.list = xs, !.before = rd.owner.slaves_cache.val,
                                   !.after = loc.items, !.truth = Truth("GroupSlaves"),
                                   !.hooks = eff.hooks, !.calls = rd.calls \o eff.calls,
                                   !.exc = eff.exc]
  /\ UNCHANGED <<caches, reads, slave, proxy>>

-----------------------------------------------------------------------------
(* Operations: the held proxy *)

\* del p: the caller lets go of the proxy
DropProxy ==
  /\ Ready
  /\ proxy # NoProxy
  /\ proxy' = NoProxy
  /\ last' = [Quiet EXCEPT !.op = "del", !.kind = proxy.kind]
  /\ UNCHANGED <<remote, caches, reads, slave, group>>

\* p.append(x)
ListAppend ==
  /\ Ready
  /\ proxy # NoProxy
  /\ Len(proxy.items) < MaxLen
  /\ \E x \in Inputs(proxy.kind), o \in Oracles(proxy.kind) :
       ProxyStep("append", DeadlineList_append(ItemClass(proxy.kind), proxy.items, x),
                 o, x, 0, <<>>)

\* p.remove(x)
ListRemove ==
  /\ Ready
  /\ proxy # NoProxy
  /\ \E x \in Inputs(proxy.kind), o \in Oracles(proxy.kind) :
       ProxyStep("remove", DeadlineList_remove(ItemClass(proxy.kind), proxy.items, x),
                 o, x, 0, <<>>)

\* p[:] = xs
ListSetSlice ==
  /\ Ready
  /\ proxy # NoProxy
  /\ \E xs \in InputLists(proxy.kind), o \in Oracles(proxy.kind) :
       ProxyStep("setslice", DeadlineList_setslice(ItemClass(proxy.kind), proxy.items, xs),
                 o, Arg("str", ""), 0, xs)

\* p[i] = x
ListSetItem ==
  /\ Ready
  /\ proxy # NoProxy
  /\ \E i \in Indices, x \in Inputs(proxy.kind), o \in Oracles(proxy.kind) :
       ProxyStep("setitem", DeadlineList_setitem(ItemClass(proxy.kind), proxy.items, i, x),
                 o, x, i, <<>>)

\* del p[i]
ListDelItem ==
  /\ Ready
  /\ proxy # NoProxy
  /\ \E i \in Indices, o \in Oracles(proxy.kind) :
       ProxyStep("delitem", DeadlineList_delitem(ItemClass(proxy.kind), proxy.items, i),
                 o, Arg("str", ""), i, <<>>)

\* p.insert(i, x)
ListInsert ==
  /\ Ready
  /\ proxy # NoProxy
  /\ Len(proxy.items) < MaxLen
  /\ \E i \in Indices, x \in Inputs(proxy.kind), o \in Oracles(proxy.kind) :
       ProxyStep("insert", DeadlineList_insert(ItemClass(proxy.kind), proxy.items, i, x),
                 o, x, i, <<>>)

\* p.pop(i)
ListPop ==
  /\ Ready
  /\ proxy # NoProxy
  /\ \E i \in Indices, o \in Oracles(proxy.kind) :
       ProxyStep("pop", DeadlineList_pop(ItemClass(proxy.kind), proxy.items, i),
                 o, Arg("str", ""), i, <<>>)

\* p.index(x)
ListIndex ==
  /\ Ready
  /\ proxy # NoProxy
  /\ \E x \in Inputs(proxy.kind), o \in Oracles("read") :
       ProxyStep("index", DeadlineList_index(ItemClass(proxy.kind), proxy.items, x),
                 o, x, 0, <<>>)

\* p[i]
ListGetItem ==
  /\ Ready
  /\ proxy # NoProxy
  /\ \E i \in Indices, o \in Oracles("read") :
       ProxyStep("getitem", DeadlineList_getitem(ItemClass(proxy.kind), proxy.items, i),
                 o, Arg("str", ""), i, <<>>)

\* len(p)
ListLength ==
  /\ Ready
  /\ proxy # NoProxy
  /\ \E o \in Oracles("read") :
       ProxyStep("len", DeadlineList_len(ItemClass(proxy.kind), proxy.items),
                 o, Arg("str", ""), 0, <<>>)

-----------------------------------------------------------------------------
(* Operations: a slave's info and settings *)

\* Keyword arguments a caller may pass to update_settings.
KwargsInputs ==
  {<<>>,
   <<Leaf("Enable", "true")>>,
   <<Leaf("Enable", "false")>>,
   <<Nested("ExDic", <<Leaf("k", "x")>>)>>,
   <<Nested("ExDic", <<Leaf("k", "")>>)>>,
   <<Leaf("Missing", "x")>>,
   <<Nested("ExDic", <<Leaf("missing", "x")>>)>>,
   <<Leaf("Enable", "false"), Leaf("Missing", "x")>>,
   <<Leaf("Enable", "false"), Nested("ExDic", <<Leaf("k", "x")>>)>>}

\* slave.info
SlaveInfoGet ==
  /\ Ready
  /\ slave # NoObject
  /\ proxy = NoProxy
  /\ \E got \in {Slave_info(remote, slave)} :
       /\ slave' = got.owner
       /\ last' = [Quiet EXCEPT !.op = "info", !.owner = slave.name, !.calls = got.calls,
                                !.known = slave.name \in reads.info]
  /\ reads' = [reads EXCEPT !.info = @ \cup {slave.name}]
  /\ UNCHANGED <<remote, caches, group, proxy>>

\* slave.settings
SlaveSettingsGet ==
  /\ Ready
  /\ slave # NoObject
  /\ proxy = NoProxy
  /\ \E got \in {Slave_settings(remote, slave)} :
       /\ slave' = got.owner
       /\ last' = [Quiet EXCEPT !.op = "settings", !.owner = slave.name, !.calls = got.calls,
                                !.known = slave.name \in reads.settings,
                                !.settingsBefore = Fetched(got.owner.settings.val[1])]
  /\ reads' = [reads EXCEPT !.settings = @ \cup {slave.name}]
  /\ UNCHANGED <<remote, caches, group, proxy>>

\* A step of update_settings on the held slave.
SettingsStep(op, kwargs, status) ==
  \E up \in {Slave_update_settings(remote, slave, kwargs, status)} :
    /\ slave' = up.eff.owner
    /\ remote' = up.eff.remote
    /\ last' = [Quiet EXCEPT !.op = op, !.owner = slave.name, !.kwargs = kwargs,
                             !.settingsBefore = Fetched(up.before),
                             !.calls = up.eff.calls, !.ret = up.ret, !.exc = up.eff.exc]
    /\ UNCHANGED <<caches, reads, group, proxy>>

\* slave.update_settings(**kwargs)
UpdateSettings ==
  /\ Ready
  /\ slave # NoObject
  /\ proxy = NoProxy
  /\ \E kwargs \in KwargsInputs, status \in RemoteStatuses :
       SettingsStep("update_settings", kwargs, status)

\* slave.enable()
Enable ==
  /\ Ready
  /\ slave # NoObject
  /\ proxy = NoProxy
  /\ \E status \in RemoteStatuses : SettingsStep("enable", <<Leaf("Enable", "true")>>, status)

\* slave.disable()
Disable ==
  /\ Ready
  /\ slave # NoObject
  /\ proxy = NoProxy
  /\ \E status \in RemoteStatuses : SettingsStep("disable", <<Leaf("Enable", "false")>>, status)

-----------------------------------------------------------------------------
(* Operations: pools and groups as a whole *)

\* A step on the Pool class or a Pool made on the spot.
PoolStep(op, name, force, done) ==
  /\ POOLS_CACHE' = done.cache
  /\ remote' = done.remote
  /\ last' = [Quiet EXCEPT !.op = op, !.kind = "Pool", !.owner = name, !.force = force,
                           !.cacheBefore = POOLS_CACHE,
                           !.truth = GetSlaveNamesInPool(remote, name),
                           !.calls = done.calls, !.ret = done.ret, !.exc = done.exc]
  /\ UNCHANGED <<GROUPS_CACHE, SLAVES_CACHE, INFO_CACHE, SETTINGS_CACHE,
                 reads, slave, group, proxy>>

\* A step on the Group class or a Group made on the spot.
GroupStep(op, name, force, done) ==
  /\ GROUPS_CACHE' = done.cache
  /\ remote' = done.remote
  /\ last' = [Quiet EXCEPT !.op = op, !.kind = "Group", !.owner = name, !.force = force,
                           !.cacheBefore = GROUPS_CACHE,
                           !.truth = GetSlaveNamesInGroup(remote, name),
                           !.calls = done.calls, !.ret = done.ret, !.exc = done.exc]
  /\ UNCHANGED <<POOLS_CACHE, SLAVES_CACHE, INFO_CACHE, SETTINGS_CACHE,
                 reads, slave, group, proxy>>

\* Pool.all()
PoolAll ==
  /\ Ready
  /\ PoolStep("all", "", FALSE, Pool_all(remote, POOLS_CACHE))

\* Pool(n).exists()
PoolExists ==
  /\ Ready
  /\ \E n \in PoolInputs :
       PoolStep("exists", n, FALSE, DeadlineItem_exists(Pool_all(remote, POOLS_CACHE), n))

\* Pool(n).create()
PoolCreate ==
  /\ Ready
  /\ POOLS_CACHE.set => Len(POOLS_CACHE.val) < MaxLen
  /\ \E n \in PoolInputs, status \in RemoteStatuses :
       PoolStep("create", n, FALSE, Pool_create(remote, POOLS_CACHE, n, status))

\* Pool(n).delete(force)
PoolDelete ==
  /\ Ready
  /\ \E n \in PoolInputs, force \in BOOLEAN, status \in RemoteStatuses :
       PoolStep("delete", n, force, Pool_delete(remote, POOLS_CACHE, n, force, status))

\* Group.all()
GroupAll ==
  /\ Ready
  /\ GroupStep("all", "", FALSE, Group_all(remote, GROUPS_CACHE))

\* Group(n).exists()
GroupExists ==
  /\ Ready
  /\ \E n \in GroupInputs :
       GroupStep("exists", n, FALSE, DeadlineItem_exists(Group_all(remote, GROUPS_CACHE), n))

\* Group(n).create()
GroupCreate ==
  /\ Ready
  /\ \E n \in GroupInputs, status \in RemoteStatuses :
       GroupStep("create", n, FALSE, Group_create(remote, GROUPS_CACHE, n, status))

\* Group(n).delete(force)
GroupDelete ==
  /\ Ready
  /\ \E n \in GroupInputs, force \in BOOLEAN, status \in RemoteStatuses :
       GroupStep("delete", n, force, Group_delete(remote, GROUPS_CACHE, n, force, status))

\* Slave(n).exists
SlaveExists ==
  /\ Ready
  /\ \E n \in SlaveInputs :
       \E done \in {Slave_exists(remote, SLAVES_CACHE, n)} :
         /\ SLAVES_CACHE' = done.cache
         /\ last' = [Quiet EXCEPT !.op = "exists", !.kind = "Slave", !.owner = n,
                                  !.cacheBefore = SLAVES_CACHE, !.calls = done.calls,
                                  !.ret = done.ret, !.exc = done.exc]
  /\ UNCHANGED <<remote, POOLS_CACHE, GROUPS_CACHE, INFO_CACHE, SETTINGS_CACHE,
                 reads, slave, group, proxy>>

\* Slave.all()
SlaveAll ==
  /\ Ready
  /\ \E done \in {Slave_all(remote, SLAVES_CACHE)} :
       /\ SLAVES_CACHE' = done.cache
       /\ last' = [Quiet EXCEPT !.op = "all", !.kind = "Slave", !.cacheBefore = SLAVES_CACHE,
                                !.calls = done.calls]
  /\ UNCHANGED <<remote, POOLS_CACHE, GROUPS_CACHE, INFO_CACHE, SETTINGS_CACHE,
                 reads, slave, group, proxy>>

-----------------------------------------------------------------------------
(* Operations: identities *)

\* Items and strings a caller may compare.
Identities == {Arg(Classes[c], n) : c \in 1..3, n \in Range(Spellings)}

Comparands == {Arg(Classes[c], n) : c \in 1..Len(Classes), n \in Range(Spellings)}

\* a == b, a != b, hash(a) and, for an item b, hash(b)
ItemCompare ==
  /\ Ready
  /\ \E a \in Identities, b \in Comparands :
       last' = [Quiet EXCEPT !.op = "==", !.kind = a.type, !.x = a, !.list = <<b>>,
                             !.ret = Bool(DeadlineItem_eq(a, b)),
                             !.ne = DeadlineItem_ne(a, b),
                             !.retInt = DeadlineItem_hash(a),
                             !.idx = IF b.type = "str" THEN 0 ELSE DeadlineItem_hash(b)]
  /\ UNCHANGED <<remote, caches, reads, slave, group, proxy>>

-----------------------------------------------------------------------------
(* Specifications *)

InitCaches ==
  /\ POOLS_CACHE = NOT_SET
  /\ GROUPS_CACHE = NOT_SET
  /\ SLAVES_CACHE = NOT_SET
  /\ INFO_CACHE = [n \in SlaveInputs |-> NOT_SET]
  /\ SETTINGS_CACHE = [n \in SlaveInputs |-> NOT_SET]
  /\ slave = NoObject
  /\ group = NoObject
  /\ proxy = NoProxy
  /\ reads = [info |-> {}, settings |-> {}]
  /\ last = Quiet

\* Two farms: one with both groups in use, one where g1 has no slave.
InitProxy ==
  /\ remote \in [grps : {[s1 |-> {"g1"}, s2 |-> {"g1", "g2"}], [s1 |-> {}, s2 |-> {"g2"}]},
                 pools : {[s1 |-> {"p1"}, s2 |-> {}]},
                 settings : {[s \in SlaveNames |-> DefaultSettings]},
                 poolNames : {PoolNames},
                 groupNames : {GroupNames},
                 slaveNames : {SlaveNames}]
  /\ InitCaches

NextProxy ==
  \/ NewSlave \/ NewGroup
  \/ SlavePoolsGet \/ SlaveGroupsGet \/ GroupSlavesGet
  \/ SlavePoolsSet \/ SlaveGroupsSet \/ GroupSlavesSet
  \/ ListAppend \/ ListRemove \/ ListSetSlice \/ ListSetItem \/ ListDelItem
  \/ ListInsert \/ ListPop \/ ListIndex \/ ListGetItem \/ ListLength
  \/ DropProxy \/ Observe

SpecProxy == InitProxy /\ [][NextProxy]_vars

\* A farm where slave s1 has any settings.
InitSettings ==
  /\ remote \in [grps : {[s1 |-> {"g1"}, s2 |-> {"g1", "g2"}]},
                 pools : {[s1 |-> {"p1"}, s2 |-> {}]},
                 settings : [SlaveNames -> [Enable : {"true", "false"}, ExDic : [k : {"", "x"}]]],
                 poolNames : {PoolNames},
                 groupNames : {GroupNames},
                 slaveNames : {SlaveNames}]
  /\ remote.settings["s2"] = DefaultSettings
  /\ InitCaches

NextSettings ==
  \/ NewSlave \/ SlaveInfoGet \/ SlaveSettingsGet
  \/ UpdateSettings \/ Enable \/ Disable \/ Observe

SpecSettings == InitSettings /\ [][NextSettings]_vars

\* A farm with any pools and groups; slave s1 in pool p1 or in none.
InitLifecycle ==
  /\ remote \in [grps : {[s1 |-> {"g1"}, s2 |-> {}]},
                 pools : {[s1 |-> {"p1"}, s2 |-> {}], [s1 |-> {}, s2 |-> {}]},
                 settings : {[s \in SlaveNames |-> DefaultSettings]},
                 poolNames : SUBSET PoolNames,
                 groupNames : SUBSET GroupNames,
                 slaveNames : {SlaveNames, {}}]
  /\ InitCaches

NextLifecycle ==
  \/ PoolAll \/ PoolExists \/ PoolCreate \/ PoolDelete
  \/ GroupAll \/ GroupExists \/ GroupCreate \/ GroupDelete
  \/ SlaveAll \/ SlaveExists \/ Observe

SpecLifecycle == InitLifecycle /\ [][NextLifecycle]_vars

\* A caller who works on a slave's groups with a Group object at hand.
NextSymmetry ==
  \/ NewGroup \/ GroupSlavesGet \/ DropProxy \/ NewSlaveBeside
  \/ SlaveGroupsGet \/ ListAppend \/ ListRemove \/ Observe

SpecSymmetry == InitProxy /\ [][NextSymmetry]_vars

\* Identities need no farm: any will do.
InitIdentity ==
  /\ remote = [grps |-> [s \in SlaveNames |-> {}], pools |-> [s \in SlaveNames |-> {}],
               settings |-> [s \in SlaveNames |-> DefaultSettings],
               poolNames |-> PoolNames, groupNames |-> GroupNames, slaveNames |-> SlaveNames]
  /\ InitCaches

NextIdentity == ItemCompare \/ Observe

SpecIdentity == InitIdentity /\ [][NextIdentity]_vars

-----------------------------------------------------------------------------
(* Properties of the proxies *)

\* The hooks of the held proxy itself, without those of the proxies its
\* hooks went through.
OwnHooks == SelectSeq(last.hooks, LAMBDA h : h.depth = 0)

HookNames(hooks) == {hooks[i].hook : i \in 1..Len(hooks)}

\* Every remote call of the last operation was answered with success.
AllSucceeded == \A i \in 1..Len(last.calls) : last.calls[i].status \in {"Success", "data"}

\* Some mutating remote call of the last operation was refused.
SomeRefused == \E i \in 1..Len(last.calls) : last.calls[i].status = "Error"

\* Slave(s).groups, read now, contains the group g.
ReadsGroup(s, g) ==
  \E i \in 1..Len(Slave_groups(remote, Slave_init(s)).items) :
    ItemEq(Slave_groups(remote, Slave_init(s)).items[i], g)

\* The last operation was Group(g).slaves = New on a group whose slave list
\* was Old, and every remote call succeeded.
BulkAssigned ==
  /\ last.op = "slaves="
  /\ AllSucceeded
  /\ LowerSet(last.before) = LowerSet(last.truth)

\* C1: after Group(g).slaves = New on a group whose slave list was Old, with
\* the remote calls succeeding, every slave of New \ Old reads g in
\* Slave(s).groups and no slave of Old \ New does.
C1_BulkAssignBothWays ==
  BulkAssigned =>
    /\ \A s \in LowerSet(last.after) \ LowerSet(last.before) : ReadsGroup(s, last.owner)
    /\ \A s \in LowerSet(last.before) \ LowerSet(last.after) : ~ReadsGroup(s, last.owner)

\* A bulk assignment that both adds a slave and takes one away.
C1_Witness ==
  /\ BulkAssigned
  /\ LowerSet(last.after) \ LowerSet(last.before) # {}
  /\ LowerSet(last.before) \ LowerSet(last.after) # {}
  /\ \A s \in LowerSet(last.after) \ LowerSet(last.before) : ReadsGroup(s, last.owner)

\* C2: after P.append(x) the list is the old list followed by T(x), and the
\* proxy fired exactly one hook, trigger_add with the argument T(x); no
\* trigger_remove or trigger_set fired anywhere.
C2_AppendFiresOneAdd ==
  last.op = "append" =>
    /\ Len(last.after) = Len(last.before) + 1
    /\ SubSeq(last.after, 1, Len(last.before)) = last.before
    /\ last.after[Len(last.after)] = Item(ItemClass(last.kind), last.x).name
    /\ OwnHooks = <<Hook("trigger_add", last.kind, Item(ItemClass(last.kind), last.x), 0)>>
    /\ HookNames(last.hooks) = {"trigger_add"}

\* An append of a raw string to a list that already holds an element.
C2_Witness ==
  /\ last.op = "append"
  /\ last.x.type = "str"
  /\ last.before # <<>>
  /\ Len(OwnHooks) = 1

\* C3: after P[:] = L the list is [T(e) for e in L] in order, and the proxy
\* fired exactly one hook, trigger_set with the list it held before.
C3_SliceAssignFiresOneSet ==
  last.op = "setslice" =>
    /\ last.after = [i \in 1..Len(last.list) |-> Item(ItemClass(last.kind), last.list[i]).name]
    /\ OwnHooks = <<Hook("trigger_set", last.kind, last.before, 0)>>

\* A slice assignment that changes a list which was not empty.
C3_Witness ==
  /\ last.op = "setslice"
  /\ last.before # <<>>
  /\ last.list # <<>>
  /\ last.after # last.before
  /\ Len(OwnHooks) = 1

\* The positions of last.before that hold an element equal to T(x).
Matches == {k \in 1..Len(last.before) : ItemEq(last.before[k], last.x.name)}

\* C4: P.remove(x) with an element equal to T(x) takes out the first such
\* element only and fires exactly one trigger_remove; with none it raises
\* the not-found error, leaves the list as it was and fires no hook and
\* makes no remote call.
C4_RemoveFirstOrFail ==
  last.op = "remove" =>
    IF Matches # {}
    THEN /\ \E k \in Matches :
              /\ \A j \in Matches : k <= j
              /\ last.after = RemoveAt(last.before, k)
         /\ Len(OwnHooks) = 1
         /\ OwnHooks[1].hook = "trigger_remove"
    ELSE /\ last.exc = "ValueError"
         /\ last.after = last.before
         /\ last.hooks = <<>>
         /\ last.calls = <<>>

\* A removal from a list that holds two elements equal to T(x).
C4_Witness ==
  /\ last.op = "remove"
  /\ Cardinality(Matches) = 2
  /\ Len(last.after) = 1

\* A removal of a value the list does not hold.
C4_WitnessAbsent ==
  /\ last.op = "remove"
  /\ last.before # <<>>
  /\ Matches = {}
  /\ last.exc = "ValueError"

\* The operations that change a proxy element by element.
Mutations == {"append", "remove", "setitem", "insert", "pop", "delitem"}

\* C9: a proxy mutation whose remote call answers a status other than
\* "Success" raises nothing and leaves the mutated list in place.
C9_RefusedCallNeverRaises ==
  (last.op \in Mutations /\ SomeRefused) =>
    /\ last.exc = "none"
    /\ proxy.items = last.after

-----------------------------------------------------------------------------
(* Properties of a slave's settings and caches *)

SaveCalls == SelectSeq(last.calls, LAMBDA c : c.api = "SaveSlaveSettings")

\* The last operation was update_settings(k=v) for one key the settings have.
UpdatedOneKey ==
  /\ last.op \in {"update_settings", "enable", "disable"}
  /\ Len(last.kwargs) = 1
  /\ ~last.kwargs[1].dict
  /\ last.kwargs[1].key \in DOMAIN last.settingsBefore.val

\* C5: update_settings(k=v) makes no save call and returns true when the
\* cached settings hold v for k; when they hold another value it makes
\* exactly one save call, and returns true if that call answers "Success".
C5_SaveOnlyOnChange ==
  UpdatedOneKey =>
    IF last.settingsBefore.val[last.kwargs[1].key] = last.kwargs[1].val
    THEN SaveCalls = <<>> /\ last.ret = "True"
    ELSE /\ Len(SaveCalls) = 1
         /\ SaveCalls[1].status = "Success" => last.ret = "True"

\* An update that found the value already there.
C5_Witness ==
  /\ UpdatedOneKey
  /\ last.settingsBefore.val[last.kwargs[1].key] = last.kwargs[1].val
  /\ last.ret = "True"

\* An update that changed the value and saved it.
C5_WitnessSaved ==
  /\ UpdatedOneKey
  /\ last.settingsBefore.val[last.kwargs[1].key] # last.kwargs[1].val
  /\ Len(SaveCalls) = 1
  /\ SaveCalls[1].status = "Success"
  /\ remote.settings[last.owner] = slave.settings.val[1]

\* C10: once the info (the settings) of a name has been read, a later read
\* for that name, through whichever Slave object, makes no remote call.
C10_FetchedOncePerName ==
  (last.op \in {"info", "settings"} /\ last.known) => last.calls = <<>>

-----------------------------------------------------------------------------
(* Properties of create and delete *)

\* The all-names cache of the class the last operation worked on.
CacheNow == IF last.kind = "Pool" THEN POOLS_CACHE ELSE GROUPS_CACHE

DeleteCalls == SelectSeq(last.calls, LAMBDA c : c.api \in {"DeletePool", "DeleteGroup"})

\* C6: delete() without force on a pool or group that has a member slave
\* returns false, makes no remote delete call and leaves the all-names
\* cache as it was.
C6_DeleteRefusedWithMembers ==
  (last.op = "delete" /\ ~last.force /\ last.truth # <<>>) =>
    /\ last.ret = "False"
    /\ DeleteCalls = <<>>
    /\ CacheNow = last.cacheBefore

\* C7: delete(force=True), and delete() on a pool or group without member
\* slaves, make exactly one remote delete call and return true exactly when
\* that call answers "Success".
C7_DeleteCallsOnce ==
  (last.op = "delete" /\ (last.force \/ last.truth = <<>>)) =>
    /\ Len(DeleteCalls) = 1
    /\ last.ret = Bool(DeleteCalls[1].status = "Success")

\* C8: with the all-names cache fetched, create() appends the name and
\* delete() removes it when the remote call answers "Success"; otherwise
\* the cache stays as it was and the operation returns false.
C8_CacheFollowsSuccess ==
  (last.op \in {"create", "delete"} /\ last.cacheBefore.set) =>
    IF \E i \in 1..Len(last.calls) : last.calls[i].status = "Success"
    THEN /\ last.ret = "True"
         /\ last.op = "create" => CacheNow.val = Append(last.cacheBefore.val, last.owner)
         /\ last.op = "delete" => Len(CacheNow.val) = Len(last.cacheBefore.val) - 1
    ELSE /\ CacheNow = last.cacheBefore
         /\ last.ret = "False"

-----------------------------------------------------------------------------
(* Properties of the all-names caches *)

\* How many calls of the api the log holds.
CallCount(calls, api) == Cardinality({i \in 1..Len(calls) : calls[i].api = api})

\* A step lists the names only while the cell is NOT_SET, once, and the
\* cell is set from then on.
ListsOnce(cell, cellAfter, callsAfter, api) ==
  IF cell.set
  THEN cellAfter.set /\ CallCount(callsAfter, api) = 0
  ELSE /\ CallCount(callsAfter, api) <= 1
       /\ CallCount(callsAfter, api) = 1 => cellAfter.set

\* C11: over any run of all(), exists(), create() and delete(), the names
\* of the slaves, of the pools and of the groups are each listed at most
\* once; a list fetched empty counts as fetched.
C11_NamesListedOnce ==
  [][/\ ListsOnce(POOLS_CACHE, POOLS_CACHE', last'.calls, "GetPoolNames")
     /\ ListsOnce(GROUPS_CACHE, GROUPS_CACHE', last'.calls, "GetGroupNames")
     /\ ListsOnce(SLAVES_CACHE, SLAVES_CACHE', last'.calls, "GetSlaveNames")]_vars

\* exists() on a pool after the pool names were fetched and found empty.
C11_Witness ==
  /\ last.op = "exists"
  /\ last.kind = "Pool"
  /\ last.cacheBefore = Fetched(<<>>)
  /\ last.ret = "False"
  /\ last.calls = <<>>

-----------------------------------------------------------------------------
(* Properties of the values returned *)

\* update_settings that found all its keys returns true exactly when it
\* saved nothing or the save answered "Success".
SettingsReturnStatus ==
  (last.op \in {"update_settings", "enable", "disable"} /\ last.exc = "none") =>
    last.ret = Bool(SaveCalls = <<>> \/ SaveCalls[1].status = "Success")

\* create(), and delete() that the membership test does not refuse, raise
\* nothing and return true exactly when their remote call answered "Success".
LifecycleReturnStatus ==
  (last.kind \in {"Pool", "Group"} /\ (last.op = "create" \/ (last.op = "delete" /\ last.force))) =>
    /\ last.exc = "none"
    /\ last.ret = Bool(\E i \in 1..Len(last.calls) : last.calls[i].status = "Success")

\* C12: update_settings returns true iff no value changed or the save
\* answered "Success"; create() and delete() return true iff the remote
\* call answered "Success"; any other status gives false, not an exception.
C12_StatusBecomesBoolean == SettingsReturnStatus /\ LifecycleReturnStatus

-----------------------------------------------------------------------------
(* Properties of identities *)

\* The last operation compared two items of one class.
ComparedSameClass == last.op = "==" /\ last.list[1].type = last.x.type

\* C13: two items of one class whose names are equal ignoring case compare
\* equal and have equal hashes; two whose names differ ignoring case
\* compare unequal.
C13_EqualIgnoringCase ==
  ComparedSameClass =>
    IF lower(last.x.name) = lower(last.list[1].name)
    THEN last.ret = "True" /\ ~last.ne /\ last.retInt = last.idx
    ELSE last.ret = "False" /\ last.ne

\* Two items of one class spelled differently, found equal.
C13_Witness ==
  /\ ComparedSameClass
  /\ last.x.name # last.list[1].name
  /\ last.ret = "True"
  /\ last.retInt = last.idx

-----------------------------------------------------------------------------
(* Properties of the remote calls of the proxies *)

CallsOf(api) == SelectSeq(last.calls, LAMBDA c : c.api = api)

\* The calls of the last operation that name the slave s.
CallsNaming(s) ==
  {i \in 1..Len(last.calls) :
     IF last.calls[i].api = "SetGroupsForSlave" /\ last.kind = "GroupSlaves"
     THEN s \in {lower(n) : n \in last.calls[i].args[1]}
     ELSE last.calls[i].api # "GetSlaveNamesInGroup" /\ lower(last.calls[i].args[1]) = s}

\* The last operation set the whole slave list of a group whose membership
\* was the list it held.
BulkSet ==
  /\ last.op \in {"slaves=", "setslice"}
  /\ last.kind = "GroupSlaves"
  /\ LowerSet(last.before) = LowerSet(last.truth)

-----------------------------------------------------------------------------
(* Properties of the caches behind the proxies *)

\* The last operation changed the list of a proxy on the held slave.
SlaveListChanged ==
  /\ last.kind \in {"SlavePools", "SlaveGroups"}
  /\ last.op \in Mutations \cup {"setslice", "pools=", "groups="}
  /\ last.exc = "none"

\* slave.pools or slave.groups, read again on the held Slave object.
Reread ==
  IF last.kind = "SlavePools"
  THEN Slave_pools(remote, slave).items
  ELSE Slave_groups(remote, slave).items

\* C15: after a mutation through slave.pools or slave.groups the cached
\* field of the slave is the comma-join of the proxy's list, and reading
\* the property again gives that very list, the empty one included.
C15_RereadMirrorsProxy ==
  SlaveListChanged =>
    /\ slave.info.val[IF last.kind = "SlavePools" THEN "Pools" ELSE "Grps"] = JoinComma(last.after)
    /\ Reread = last.after

\* Reading again gives the list back whenever it is not empty.
RereadMirrorsUnlessEmpty ==
  (SlaveListChanged /\ last.after # <<>>) => Reread = last.after

\* The last operation changed the list of a proxy on the held group.
GroupListChanged ==
  /\ last.kind = "GroupSlaves"
  /\ last.op \in {"append", "remove", "slaves=", "setslice"}
  /\ last.exc = "none"

\* C16: after append, remove or a bulk assignment through group.slaves,
\* reading group.slaves again on the same Group object gives the list as
\* the mutation left it.
C16_GroupRereadMirrorsProxy ==
  GroupListChanged => Group_slaves_cache(remote, group).owner.slaves_cache.val = last.after

\* The slave list of the object obj, as group.slaves reads it now, holds s.
ListsSlave(obj, s) ==
  \E i \in 1..Len(Group_slaves_cache(remote, obj).owner.slaves_cache.val) :
    ItemEq(Group_slaves_cache(remote, obj).owner.slaves_cache.val[i], s)

\* The last operation added the held group to the held slave's groups, or
\* took it away, and the remote service agreed.
GroupOfSlaveChanged ==
  /\ last.kind = "SlaveGroups"
  /\ last.op \in {"append", "remove"}
  /\ last.exc = "none"
  /\ AllSucceeded
  /\ group # NoObject
  /\ ItemEq(group.name, last.x.name)

\* C17: after group g was added to slave s through s.groups, the slave
\* list of any Group object for g holds s, and after it was removed none
\* does: the object at hand, whether it had read its list or not, and a
\* new one.
C17_GroupSeesSlaveChange ==
  GroupOfSlaveChanged =>
    /\ ListsSlave(group, last.owner) <=> last.op = "append"
    /\ ListsSlave(Group_init(group.name), last.owner) <=> last.op = "append"

\* A new Group object sees the change.
NewGroupSeesSlaveChange ==
  GroupOfSlaveChanged =>
    (ListsSlave(Group_init(group.name), last.owner) <=> last.op = "append")

\* A caller who lists, creates and deletes while working on slaves and groups:
\* one farm, a slave's pools and a group's slaves with one operation for each
\* hook (the group's hooks go on to the slaves' groups), and the settings
\* switched on and off.
InitFrame ==
  /\ remote = [grps |-> [s1 |-> {"g1"}, s2 |-> {"g1", "g2"}],
               pools |-> [s1 |-> {"p1"}, s2 |-> {}],
               settings |-> [s \in SlaveNames |-> DefaultSettings],
               poolNames |-> PoolNames, groupNames |-> GroupNames, slaveNames |-> SlaveNames]
  /\ InitCaches

NextFrame ==
  \/ NewSlave \/ NewGroup
  \/ SlavePoolsGet \/ GroupSlavesGet
  \/ ListAppend \/ ListRemove \/ ListPop
  \/ Enable \/ Disable
  \/ PoolAll \/ PoolExists \/ PoolCreate \/ PoolDelete
  \/ GroupAll \/ GroupExists \/ GroupCreate
  \/ SlaveAll \/ SlaveExists \/ Observe

SpecFrame == InitFrame /\ [][NextFrame]_vars

-----------------------------------------------------------------------------
(* Properties of the index operations *)

\* C18: p[i] = x, p.insert(i, x), p.pop(i) and del p[i], when the index is
\* one the list has, fire exactly one hook of the proxy, trigger_set with
\* the list as it was before; p[i], len(p) and p.index(x) fire no hook.
C18_IndexMutationsFireOneSet ==
  /\ (last.op \in {"setitem", "insert", "pop", "delitem"} /\ last.exc # "IndexError") =>
       OwnHooks = <<Hook("trigger_set", last.kind, last.before, 0)>>
  /\ last.op \in {"getitem", "len", "index"} => last.hooks = <<>> /\ last.calls = <<>>

\* A pop that took an element out of a list.
C18_Witness ==
  /\ last.op = "pop"
  /\ Len(last.after) + 1 = Len(last.before)
  /\ last.ret = last.before[NormIndex(last.idx, Len(last.before)) + 1]
  /\ Len(OwnHooks) = 1

-----------------------------------------------------------------------------
(* Remote calls of a slave's proxies *)

\* The remote call of each kind, for a slave's pools and a slave's groups.
MembershipCall(kind, what) ==
  IF kind = "SlavePools"
  THEN CASE what = "add" -> "AddPoolToSlave"
         [] what = "remove" -> "RemovePoolFromSlave"
         [] OTHER -> "SetPoolsForSlave"
  ELSE CASE what = "add" -> "AddGroupToSlave"
         [] what = "remove" -> "RemoveGroupFromSlave"
         [] OTHER -> "SetGroupsForSlave"

\* The operation changed the list: the index was one the list has, and the
\* value to remove was in it.
Mutated == last.op \in Mutations /\ last.exc \notin {"IndexError", "ValueError"}

\* C19: on slave.pools and slave.groups every mutation makes exactly one
\* remote call: append an add call with the slave and the item, remove a
\* remove call with the slave and the item, and p[i] = x, insert, pop and
\* del p[i] a set call with the slave and the whole list after the mutation.
C19_OneCallPerMutation ==
  (last.kind \in {"SlavePools", "SlaveGroups"} /\ Mutated) =>
    \E status \in RemoteStatuses :
      last.calls =
        <<CASE last.op = "append" ->
                 Call(MembershipCall(last.kind, "add"), <<last.owner, last.x.name>>, status)
            [] last.op = "remove" ->
                 Call(MembershipCall(last.kind, "remove"), <<last.owner, last.x.name>>, status)
            [] OTHER ->
                 Call(MembershipCall(last.kind, "set"), <<last.owner, last.after>>, status)>>

\* An insert into a slave's pools that sent the longer list.
C19_Witness ==
  /\ last.kind = "SlavePools"
  /\ last.op = "insert"
  /\ Len(last.after) = Len(last.before) + 1
  /\ Len(last.calls) = 1
  /\ last.calls[1].api = "SetPoolsForSlave"
  /\ last.calls[1].args = <<last.owner, last.after>>

-----------------------------------------------------------------------------
(* What changes a list of all names *)

\* A step changes the list of all names of a class only as the lazy fetch of
\* all() or exists() of that class, from NOT_SET to the names the remote
\* side gives, or as create() or delete() of that class.
NamesChangeOnlyBy(cache, cacheNew, kind, names) ==
  cacheNew # cache =>
    \/ /\ cache = NOT_SET
       /\ cacheNew = Fetched(names)
       /\ last'.op \in {"all", "exists"}
       /\ last'.kind = kind
    \/ /\ last'.op \in {"create", "delete"}
       /\ last'.kind = kind

\* C20: apart from the first lazy fetch, only create() and delete() change a
\* list of all names: proxy mutations, update_settings, enable, disable,
\* reads of info and settings, and exists() leave the three lists as they are.
C20_OnlyLifecycleChangesNames ==
  [][/\ NamesChangeOnlyBy(POOLS_CACHE, POOLS_CACHE', "Pool", GetPoolNames(remote))
     /\ NamesChangeOnlyBy(GROUPS_CACHE, GROUPS_CACHE', "Group", GetGroupNames(remote))
     /\ NamesChangeOnlyBy(SLAVES_CACHE, SLAVES_CACHE', "Slave", GetSlaveNames(remote))]_vars

\* A slave was taken out of a group through the group's proxy, with remote
\* calls made, while the three lists of names were fetched.
C20_Witness ==
  /\ last.op = "remove"
  /\ last.kind = "GroupSlaves"
  /\ last.after # last.before
  /\ last.calls # <<>>
  /\ POOLS_CACHE.set /\ GROUPS_CACHE.set /\ SLAVES_CACHE.set

-----------------------------------------------------------------------------
(* Failures of update_settings *)

\* The last operation was an update_settings call, under whichever name.
UpdatedSettings == last.op \in {"update_settings", "enable", "disable"}

\* The keyword arguments name a key the settings do not have, at top level
\* or inside a setting that is itself a dict.
NamesAbsentKey(kwargs, settings) ==
  \E i \in 1..Len(kwargs) :
    \/ kwargs[i].key \notin DOMAIN settings
    \/ /\ kwargs[i].dict
       /\ kwargs[i].key \in DOMAIN settings
       /\ \E j \in 1..Len(kwargs[i].sub) :
            kwargs[i].sub[j].key \notin DOMAIN settings[kwargs[i].key]

\* C21: update_settings with a key that the cached settings do not have, at
\* top level or inside a nested setting, raises KeyError to the caller and
\* makes no save call.
C21_AbsentKeyRaisesWithoutSave ==
  (UpdatedSettings /\ NamesAbsentKey(last.kwargs, last.settingsBefore.val)) =>
    /\ last.exc = "KeyError"
    /\ last.ret = "None"
    /\ SaveCalls = <<>>

\* An update that named an absent key inside ExDic and raised.
C21_Witness ==
  /\ UpdatedSettings
  /\ Len(last.kwargs) = 1
  /\ last.kwargs[1].dict
  /\ NamesAbsentKey(last.kwargs, last.settingsBefore.val)
  /\ last.exc = "KeyError"

\* The last operation was an update_settings call whose save was refused.
SaveRefused ==
  /\ UpdatedSettings
  /\ Len(SaveCalls) = 1
  /\ SaveCalls[1].status = "Error"

\* The same call once more on the same object, whatever the remote side
\* would answer.
Repeated(status) == Slave_update_settings(remote, slave, last.kwargs, status)

\* C22: when the save of update_settings(k=v) is refused the call returns
\* false and the object's cached settings keep v for k; the same call once
\* more on that object returns true and makes no remote call.
C22_NoRollbackAfterRefusedSave ==
  SaveRefused =>
    /\ last.ret = "False"
    /\ slave.name = last.owner
    /\ UpdatedOneKey => slave.settings.val[1][last.kwargs[1].key] = last.kwargs[1].val
    /\ \A status \in RemoteStatuses :
         /\ Repeated(status).ret = "True"
         /\ Repeated(status).eff.calls = <<>>
         /\ Repeated(status).eff.remote = remote

\* A refused save of one key: the object holds the new value, the remote
\* side another.
C22_Witness ==
  /\ SaveRefused
  /\ UpdatedOneKey
  /\ last.settingsBefore.val[last.kwargs[1].key] # last.kwargs[1].val
  /\ slave.settings.val[1][last.kwargs[1].key] = last.kwargs[1].val
  /\ remote.settings[last.owner][last.kwargs[1].key] # last.kwargs[1].val

-----------------------------------------------------------------------------
(* exists() after create and delete *)

\* What e.exists() returns when called now on the entity of the last
\* operation.
ExistsNow ==
  IF last.kind = "Pool"
  THEN DeadlineItem_exists(Pool_all(remote, POOLS_CACHE), last.owner).ret
  ELSE DeadlineItem_exists(Group_all(remote, GROUPS_CACHE), last.owner).ret

\* The last operation was a create() or a delete(force=True) on a pool or a
\* group that returned true.
Succeeded(op) ==
  /\ last.kind \in {"Pool", "Group"}
  /\ last.op = op
  /\ last.ret = "True"

\* How many names of the list are the name, whatever the case.
Occurrences(names, name) == Cardinality({i \in 1..Len(names) : ItemEq(names[i], name)})

\* C23: e.exists() returns true right after a create() that returned true
\* and false right after a delete() that returned true, whatever creates
\* and deletes came before.
C23_ExistsTracksLifecycle ==
  /\ Succeeded("create") => ExistsNow = "True"
  /\ Succeeded("delete") => ExistsNow = "False"

\* exists() is true after every create() that returned true, and false after
\* a delete() that returned true unless the list of names held the name more
\* than once.
ExistsTracksUnlessListedTwice ==
  /\ Succeeded("create") => ExistsNow = "True"
  /\ (Succeeded("delete") /\ last.cacheBefore.set
        /\ Occurrences(last.cacheBefore.val, last.owner) <= 1) => ExistsNow = "False"
  /\ (Succeeded("delete") /\ ~last.cacheBefore.set) => ExistsNow = "False"

====
